---- MODULE Spec2Model ----
(***************************************************************************)
(* A model of the OSS upload engine of gh-oss-helper: OSSUploader          *)
(* (uploadFiles, processRule, uploadSingleFile, performUpload,             *)
(* uploadWithRetry, isRetryableError) and calculateBackoffDelay.           *)
(*                                                                         *)
(* The uploader is a single asynchronous control thread.  Its positions    *)
(* (pc) are the points where it is suspended on an awaited call:           *)
(*   "idle"      constructed, uploadFiles not called                       *)
(*   "rule"      between two rules of the for loop of uploadFiles          *)
(*   "statting"  awaiting getFileStats in uploadSingleFile                 *)
(*   "putting"   awaiting oss.put in performUpload                         *)
(*   "poststat"  awaiting getFileStats in performUpload (after the put)    *)
(*   "delaying"  awaiting delay(delayMs) in uploadWithRetry                *)
(*   "done"      uploadFiles has returned its results                      *)
(*   "threw"     uploadFiles has rejected with an exception                *)
(* The file system and the remote store are the environment: every         *)
(* awaited call returns one of the outcomes the call can produce.          *)
(*                                                                         *)
(* Specifications:                                                         *)
(*   Spec           the upload engine, every retry configuration           *)
(*   SpecRetry      one file under many attempts (the backoff delays)      *)
(*   SpecSizes      the byte counts of the statistics                      *)
(*   SpecKeys       rules with their paths: resolution and remote keys     *)
(*   SpecAccessors  getStats and testConnection beside an upload           *)
(*   SpecClassify   isRetryableError on every error value                  *)
(***************************************************************************)
EXTENDS Integers, Sequences, FiniteSets, TLC

\* ------------------------------------------------------------------ bounds
MaxRules == 2
MaxFiles == 2
MaxRetriesBound == 3
MaxRetriesWide == 7
MaxCopies == 2

\* --------------------------------------------------------- pure functions
Min(a, b) == IF a <= b THEN a ELSE b

RECURSIVE Pow(_, _)
Pow(b, n) == IF n = 0 THEN 1 ELSE b * Pow(b, n - 1)

\* A variant that uses the retry number (attempt + 1) as the exponent.
calculateBackoffDelay_offByOne(attempt, baseDelay, maxDelay, multiplier) ==
    Min(baseDelay * Pow(multiplier, attempt + 1), maxDelay)

\* utils.calculateBackoffDelay
calculateBackoffDelay(attempt, baseDelay, maxDelay, multiplier) ==
    LET delay == baseDelay * Pow(multiplier, attempt)
    IN  Min(delay, maxDelay)

Last(q) == q[Len(q)]

\* A number that need not be an integer: a quotient of two integers in
\* lowest terms (the rounding of the floating-point division is left out).
RECURSIVE GCD(_, _)
GCD(a, b) == IF b = 0 THEN a ELSE GCD(b, a % b)

Quotient(n, d) == LET g == GCD(n, d) IN [num |-> n \div g, den |-> d \div g]

Zero == Quotient(0, 1)

\* A variant that takes the files attempted as the whole.
successRate_ofCounted(st) ==
    IF st.uploadedFiles + st.failedFiles > 0
      THEN Quotient(st.uploadedFiles * 100, st.uploadedFiles + st.failedFiles)
      ELSE Zero

\* uploadFiles: totalFiles > 0 ? (uploadedFiles / totalFiles) * 100 : 0
successRate(st) ==
    IF st.totalFiles > 0
      THEN Quotient(st.uploadedFiles * 100, st.totalFiles)
      ELSE Zero

\* ------------------------------------------------------------------ errors
\* An error value: its class (instanceof), the duck-typed code and status
\* fields ("" and 0 are the falsy values of an absent field) and whether its
\* message contains "timeout" in any letter case.
ErrorClasses == {"Error", "NetworkError", "FileNotFoundError"}
ErrorCodes == {"", "RequestTimeout", "ServiceUnavailable", "AccessDenied",
               "EACCES", "NETWORK_ERROR", "FILE_NOT_FOUND"}
ErrorStatuses == {0, 408, 503, 403, 404}
Errors == [class : ErrorClasses, code : ErrorCodes, status : ErrorStatuses,
           messageHasTimeout : BOOLEAN]

NoError == [class |-> "none", code |-> "", status |-> 0, messageHasTimeout |-> FALSE]

retryableCodes == {"RequestTimeout", "ServiceUnavailable", "Throttling",
                   "InternalError", "ConnectionTimeout", "SocketTimeout"}
retryableStatuses == {408, 429, 500, 502, 503, 504}

\* A variant that falls through to the default when the code or the status
\* is not in its list.
isRetryableError_failOpen(error) ==
    IF error.class = "FileNotFoundError" THEN FALSE ELSE TRUE

\* A variant that looks at the code, the status and the message before the
\* class.
isRetryableError_classLast(error) ==
    IF error.code # "" THEN error.code \in retryableCodes
    ELSE IF error.status # 0 THEN error.status \in retryableStatuses
    ELSE IF error.messageHasTimeout THEN TRUE
    ELSE IF error.class = "FileNotFoundError" THEN FALSE
    ELSE TRUE

\* OSSUploader.isRetryableError
isRetryableError(error) ==
    IF error.class = "FileNotFoundError" THEN FALSE
    ELSE IF error.class = "NetworkError" THEN TRUE
    ELSE IF error.code # "" THEN error.code \in retryableCodes
    ELSE IF error.status # 0 THEN error.status \in retryableStatuses
    ELSE IF error.messageHasTimeout THEN TRUE
    ELSE TRUE

\* What getFileStats can reject with: validateFile turns ENOENT and a
\* non-file into FileNotFoundError and rethrows every other fs error as is.
FileNotFound == [class |-> "FileNotFoundError", code |-> "FILE_NOT_FOUND",
                 status |-> 0, messageHasTimeout |-> FALSE]
StatErrors == {FileNotFound,
               [class |-> "Error", code |-> "EACCES", status |-> 0,
                messageHasTimeout |-> FALSE]}

\* What the remote client's put can reject with (errors of the SDK: never
\* an instance of the action's own error classes).
PutErrors == {[class |-> "Error", code |-> "RequestTimeout", status |-> 408,
               messageHasTimeout |-> TRUE],
              [class |-> "Error", code |-> "AccessDenied", status |-> 403,
               messageHasTimeout |-> FALSE],
              [class |-> "Error", code |-> "", status |-> 0,
               messageHasTimeout |-> FALSE]}

\* ------------------------------------------------------------------- rules
\* An UploadRule, by what processRule looks at: whether the destination ends
\* with "/" (isDirectory) and whether the source holds one of * ? [.
Rules == [isDirectory : BOOLEAN, sourceHasGlob : BOOLEAN]

NoRule == [isDirectory |-> FALSE, sourceHasGlob |-> FALSE]

\* ---------------------------------------------------------- paths and keys
\* A string is a sequence of tokens: the separator "/" and names, which hold
\* no separator.  The names "*" and "**" are the ones that hold one of the
\* characters * ? [.
GlobTokens == {"*", "**"}

\* s.includes('*') || s.includes('?') || s.includes('[')
hasGlob(s) == \E i \in DOMAIN s : s[i] \in GlobTokens

\* s.endsWith('/')
endsWithSlash(s) == s # <<>> /\ Last(s) = "/"

\* path.replace(/^\/+/, '')
RECURSIVE stripLeadingSlashes(_)
stripLeadingSlashes(s) ==
    IF s # <<>> /\ Head(s) = "/" THEN stripLeadingSlashes(Tail(s)) ELSE s

\* path.replace(/\/+/g, '/')
RECURSIVE collapseSlashes(_)
collapseSlashes(s) ==
    IF Len(s) < 2 THEN s
    ELSE IF s[1] = "/" /\ s[2] = "/" THEN collapseSlashes(Tail(s))
    ELSE <<Head(s)>> \o collapseSlashes(Tail(s))

\* A variant that removes one leading slash only.
sanitizeRemotePath_oneSlash(path) ==
    collapseSlashes(IF path # <<>> /\ Head(path) = "/" THEN Tail(path) ELSE path)

\* utils.sanitizeRemotePath
sanitizeRemotePath(path) == collapseSlashes(stripLeadingSlashes(path))

\* The names of a path, in order.
segments(s) == SelectSeq(s, LAMBDA t : t # "/")

\* The names joined by the separator.
RECURSIVE join(_)
join(segs) ==
    IF segs = <<>> THEN <<>>
    ELSE IF Len(segs) = 1 THEN segs
    ELSE <<Head(segs), "/">> \o join(Tail(segs))

\* path.normalize, on names: "." is dropped and ".." takes the name before it.
RECURSIVE normalize(_, _)
normalize(done, rest) ==
    IF rest = <<>> THEN done
    ELSE IF Head(rest) = "." THEN normalize(done, Tail(rest))
    ELSE IF Head(rest) = ".."
      THEN normalize(IF done = <<>> THEN done ELSE SubSeq(done, 1, Len(done) - 1),
                     Tail(rest))
    ELSE normalize(Append(done, Head(rest)), Tail(rest))

\* process.cwd(), as names.
Cwd == <<"w">>

\* The names of the absolute path a path denotes.
absoluteSegments(p) ==
    IF p # <<>> /\ Head(p) = "/" THEN normalize(<<>>, segments(p))
    ELSE normalize(Cwd, segments(p))

\* path.resolve(p)
resolve(p) == <<"/">> \o join(absoluteSegments(p))

\* path.basename(p)
basename(p) == Last(segments(p))

RECURSIVE commonLength(_, _)
commonLength(a, b) ==
    IF a # <<>> /\ b # <<>> /\ Head(a) = Head(b)
      THEN 1 + commonLength(Tail(a), Tail(b))
      ELSE 0

\* path.relative(from, to)
relative(from, to) ==
    LET f == absoluteSegments(from)
        t == absoluteSegments(to)
        k == commonLength(f, t)
    IN  join([i \in 1..(Len(f) - k) |-> ".."] \o SubSeq(t, k + 1, Len(t)))

\* utils.isAbsolute (no drive letters among the names)
isAbsolute(path) == path # <<>> /\ Head(path) = "/"

\* The text before the first token that holds a glob character:
\* basePath.split(/[*?[]/)[0]
RECURSIVE literalPrefix(_)
literalPrefix(s) ==
    IF s = <<>> \/ Head(s) \in GlobTokens THEN <<>>
    ELSE <<Head(s)>> \o literalPrefix(Tail(s))

\* utils.extractRelativePath
extractRelativePath(filePath, basePath) ==
    LET first == literalPrefix(basePath)
        base == IF endsWithSlash(first) THEN SubSeq(first, 1, Len(first) - 1)
                ELSE first
        filename == <<Last(segments(filePath))>>
    IN  IF base # <<>>
          THEN LET absBase == resolve(base)
                   rel == relative(absBase, filePath)
               IN  IF ~(rel # <<>> /\ Head(rel) = "..") /\ ~isAbsolute(rel)
                     THEN IF rel # <<>> THEN rel ELSE filename
                     ELSE filename
          ELSE filename

\* The files of the working tree, in the order fg.sync lists them, and the
\* file systems: any of them may be there or not.
TreeFiles ==
    << <<"/", "w", "/", "logo.zip">>,
       <<"/", "w", "/", "dist", "/", "a.js">>,
       <<"/", "w", "/", "dist", "/", "sub", "/", "b.js">>,
       <<"/", "w", "/", "dist", "/", "sub", "/", "a.js">> >>

FileSystems == SUBSET {TreeFiles[i] : i \in DOMAIN TreeFiles}

\* existsSync(p) && statSync(p).isFile()
isFile(p, fs) == resolve(p) \in fs

\* What the file system holds at p: a file, a directory (a proper prefix of
\* the path of a file) or nothing.
kindOf(p, fs) ==
    IF isFile(p, fs) THEN "file"
    ELSE IF \E f \in fs : LET a == absoluteSegments(p)
                               b == segments(f)
                           IN  Len(a) < Len(b) /\ SubSeq(b, 1, Len(a)) = a
      THEN "directory"
    ELSE "missing"

\* A glob pattern matches a path, name by name: "*" is any one name, "**"
\* any number of names, another name is itself.
RECURSIVE globMatch(_, _)
globMatch(pat, path) ==
    IF pat = <<>> THEN path = <<>>
    ELSE IF Head(pat) = "**"
      THEN \/ globMatch(Tail(pat), path)
           \/ path # <<>> /\ globMatch(pat, Tail(path))
    ELSE /\ path # <<>>
         /\ Head(pat) = "*" \/ Head(pat) = Head(path)
         /\ globMatch(Tail(pat), Tail(path))

\* fg.sync([pattern], {onlyFiles: true, absolute: true}): the regular files
\* the pattern matches, as absolute paths.
fgSync(pattern, fs) ==
    SelectSeq(TreeFiles,
              LAMBDA f : f \in fs /\ globMatch(absoluteSegments(pattern), segments(f)))

\* A variant that rewrites every literal source of a directory rule.
sourcePattern_always(source, isDirectory, fs) ==
    IF isDirectory /\ ~hasGlob(source)
      THEN IF endsWithSlash(source) THEN source \o <<"**", "/", "*">>
           ELSE source \o <<"/", "**", "/", "*">>
      ELSE source

\* processRule: the pattern handed to fg.sync.  A literal source of a
\* directory rule becomes source/**/* unless it is an existing regular file.
sourcePattern(source, isDirectory, fs) ==
    IF isDirectory /\ ~hasGlob(source)
      THEN IF isFile(source, fs) THEN source
           ELSE IF endsWithSlash(source) THEN source \o <<"**", "/", "*">>
           ELSE source \o <<"/", "**", "/", "*">>
      ELSE source

\* processRule: the remote path handed to uploadSingleFile for a file of
\* the list fl that fg.sync returned.
remotePath(r, fl, file) ==
    IF ~r.isDirectory THEN r.destination
    ELSE IF Len(fl) = 1 /\ ~hasGlob(r.source)
      THEN sanitizeRemotePath(r.destination \o <<basename(file)>>)
    ELSE sanitizeRemotePath(r.destination \o extractRelativePath(file, r.source))

\* The sources and destinations of the rules whose keys are followed.
Sources ==
    {<<"logo.zip">>, <<"dist">>, <<"dist", "/">>, <<"dist", "/", "*">>,
     <<"dist", "/", "**", "/", "*">>, <<"**", "/", "*">>}

Destinations ==
    {<<"up", "/">>, <<"/", "up", "/">>, <<"up", "/", "/", "x", "/">>,
     <<"k">>, <<"/", "k">>}

\* An UploadRule as parseUploadRules builds it (isDirectory), with what
\* processRule finds for it in a file system: the kind of its source and the
\* list fg.sync returns (files).
KeyRule(source, destination, fs) ==
    LET isDirectory == endsWithSlash(destination)
    IN  [source |-> source, destination |-> destination,
         isDirectory |-> isDirectory,
         sourceHasGlob |-> hasGlob(source),
         kind |-> kindOf(source, fs),
         files |-> fgSync(sourcePattern(source, isDirectory, fs), fs)]

KeyRules == {KeyRule(s, d, fs) : s \in Sources, d \in Destinations, fs \in FileSystems}

\* What the file system holds at the source path of a rule.
SourceKinds == {"file", "directory", "missing"}

\* The sizes getFileStats reports for the files whose bytes are counted.
Sizes == {1, 2}

\* The retry configurations an uploader is constructed with: the default
\* backoff parameters of the constructor and of createRetryConfig, with any
\* maxRetries validateInputs accepts (an integer >= 0).
DefaultBackoff == [baseDelay |-> 1000, maxDelay |-> 10000, backoffMultiplier |-> 2]

RetryConfig(n, b) ==
    [maxRetries |-> n, baseDelay |-> b.baseDelay, maxDelay |-> b.maxDelay,
     backoffMultiplier |-> b.backoffMultiplier]

RetryConfigs == {RetryConfig(n, DefaultBackoff) : n \in 0..MaxRetriesBound}

\* The retry configurations and the lengths of the rule list under which
\* the bytes are counted.
RetryConfigsFew == {RetryConfig(n, DefaultBackoff) : n \in 0..1}

RuleCountsFew == {2}

\* Retry configurations for one file under many attempts: the constructor
\* takes any RetryConfig.
BackoffParams ==
    {DefaultBackoff,
     [baseDelay |-> 500, maxDelay |-> 3000, backoffMultiplier |-> 3],
     [baseDelay |-> 5000, maxDelay |-> 3000, backoffMultiplier |-> 2]}

RetryConfigsWide == {RetryConfig(n, b) : n \in 0..MaxRetriesWide, b \in BackoffParams}

\* ------------------------------------------------------------------- state
VARIABLES
    retryConfig,   \* this.retryConfig
    stats,         \* this.stats
    pc,            \* position of the control thread
    ruleCount,     \* rules.length of the argument of uploadFiles
    rule,          \* the rule of the for loop (its loop variable)
    ruleIdx,       \* index of the rule of the for loop (1-based)
    files,         \* number of files fg.sync returned for the current rule
    fileIdx,       \* index of the file being uploaded (1-based)
    attempt,       \* loop variable of uploadWithRetry
    delayMs,       \* the delay being awaited
    ruleResults,   \* results of processRule (local)
    results,       \* results of uploadFiles
    hist,          \* history of the file last handed to uploadSingleFile
    run,           \* history of the uploadFiles call
    cls,           \* an error handed to isRetryableError, and the answer
    got,           \* the objects getStats returned, as the caller holds them
    conn,          \* the testConnection call: its position and its answer
    probe,         \* a value handed to a pure function of utils, and the answer
    act            \* the action's run(): its position, inputs and verdict

vars == <<retryConfig, stats, pc, ruleCount, rule, ruleIdx, files, fileIdx,
          attempt, delayMs, ruleResults, results, hist, run, cls, got, conn,
          probe, act>>

\* What the steps of uploadFiles leave alone.
others == <<cls, got, conn, probe, act>>

\* OSSUploader.constructor: the statistics of a fresh uploader
\* (totalDuration, a difference of two clock readings, is left out).
InitialStats ==
    [totalFiles |-> 0, uploadedFiles |-> 0, failedFiles |-> 0,
     totalSize |-> 0, uploadedSize |-> 0, successRate |-> Zero]

\* History of one file: what happened since it was handed to uploadSingleFile.
FreshHist ==
    [outcome |-> "none",        \* none, active, uploaded, failed, dropped
     putCalls |-> 0,            \* invocations of oss.put
     putSucceeded |-> FALSE,    \* a put call resolved
     retryableFailures |-> 0,   \* attempts that failed with a retryable error
     otherFailures |-> 0,       \* attempts that failed with a non-retryable error
     delays |-> <<>>,           \* the delays taken, in order
     fnfRaised |-> FALSE,       \* a FileNotFoundError was raised
     escaped |-> FALSE,         \* an exception escaped processRule
     uploadedInc |-> 0,         \* increments of stats.uploadedFiles
     failedInc |-> 0,           \* increments of stats.failedFiles
     resultInc |-> 0,           \* results pushed
     size |-> 0,                \* fileStats.size of uploadSingleFile
     noMatch |-> "none"]        \* the rule resolved to no file: its source is
                                \* "missing" (a literal path that does not
                                \* exist), a "glob", or "other"

FreshRun ==
    [processed |-> 0,           \* rules handed to processRule
     resolutionFailed |-> FALSE,\* a rule matched no file or resolving threw
     threw |-> 0,               \* exceptions that escaped processRule
     firstThrew |-> 0,          \* the first rule whose processing raised
     calls |-> 0]               \* uploadFiles calls that returned before this one

NoProbe == [done |-> FALSE, error |-> NoError, retryable |-> FALSE]

\* No pure function of utils has been applied.
NoCall ==
    [done |-> FALSE,            \* the function has returned
     input |-> <<>>,            \* its argument
     output |-> <<>>,           \* what it returned
     reparsed |-> FALSE,        \* the rules were written as text and parsed again
     again |-> <<>>]            \* what the second parse returned

\* run() has not been called.
NoRun ==
    [pc |-> "idle",             \* the position of run()
     bucket |-> <<>>,           \* the bucket input
     assets |-> <<>>,           \* the assets input
     continueOnError |-> "false", \* the continue-on-error input
     rules |-> <<>>,            \* what parseUploadRules returned
     warned |-> FALSE,          \* core.warning about the connection test
     uploadCalls |-> 0,         \* invocations of uploader.uploadFiles
     reported |-> <<>>,         \* the values given to the output failed-files
     failed |-> "none"]         \* the message given to core.setFailed

\* testConnection has not been called.
NoConn == [pc |-> "idle", result |-> FALSE, call |-> "none"]

UploaderInit ==
    /\ stats = InitialStats
    /\ pc = "idle"
    /\ ruleCount = 0
    /\ rule = NoRule
    /\ ruleIdx = 0
    /\ files = 0
    /\ fileIdx = 0
    /\ attempt = 0
    /\ delayMs = 0
    /\ ruleResults = <<>>
    /\ results = <<>>
    /\ hist = FreshHist
    /\ run = FreshRun
    /\ got = <<>>
    /\ conn = NoConn

Init ==
    /\ retryConfig \in RetryConfigs
    /\ UploaderInit
    /\ cls = NoProbe
    /\ probe = NoCall
    /\ act = NoRun


\* --------------------------------------------------- uploadWithRetry parts
\* A variant whose last attempt is one past the loop bound.
isLastAttempt_late(att) == att = retryConfig.maxRetries

\* uploadWithRetry: const isLastAttempt = attempt === maxRetries - 1
isLastAttempt(att) == att = retryConfig.maxRetries - 1

\* A variant that rethrows only non-retryable errors.
rethrows_onlyFatal(error, att) == ~isRetryableError(error)

\* uploadWithRetry: if (!this.isRetryableError(errorObj) || isLastAttempt) throw
rethrows(error, att) == ~isRetryableError(error) \/ isLastAttempt(att)

\* ------------------------------------------------------ control-flow joins
\* A variant that passes over the rule that follows.
ToNextRule_skip ==
    /\ pc' = "rule"
    /\ ruleIdx' = ruleIdx + 2
    /\ rule' = NoRule
    /\ files' = 0
    /\ fileIdx' = 0
    /\ attempt' = 0
    /\ delayMs' = 0
    /\ ruleResults' = <<>>

\* uploadFiles, end of the try block or of the catch block: the next rule.
ToNextRule ==
    /\ pc' = "rule"
    /\ ruleIdx' = ruleIdx + 1
    /\ rule' = NoRule
    /\ files' = 0
    /\ fileIdx' = 0
    /\ attempt' = 0
    /\ delayMs' = 0
    /\ ruleResults' = <<>>

\* A variant in which the exception is not caught: uploadFiles rejects.
RuleThrew_uncaught(st, hi, rn) ==
    /\ stats' = st
    /\ hist' = [hi EXCEPT !.escaped = TRUE]
    /\ run' = [rn EXCEPT !.threw = @ + 1,
                         !.firstThrew = IF @ = 0 THEN ruleIdx ELSE @]
    /\ pc' = "threw"
    /\ UNCHANGED <<retryConfig, ruleCount, rule, ruleIdx, files, fileIdx,
                   attempt, delayMs, ruleResults, results>>

\* uploadFiles, catch block: an exception escaped processRule.  The results
\* processRule had collected for the rule are lost with its frame.
RuleThrew(st, hi, rn) ==
    /\ stats' = [st EXCEPT !.failedFiles = @ + 1]
    /\ hist' = [hi EXCEPT !.escaped = TRUE, !.failedInc = @ + 1]
    /\ run' = [rn EXCEPT !.threw = @ + 1,
                         !.firstThrew = IF @ = 0 THEN ruleIdx ELSE @]
    /\ ToNextRule
    /\ UNCHANGED <<retryConfig, ruleCount, results>>

\* A variant that goes through the files of every rule.
FileFinished_allFiles(st, rr, hi, rn) ==
    /\ stats' = st
    /\ hist' = hi
    /\ run' = rn
    /\ IF fileIdx < files
         THEN /\ pc' = "statting"
              /\ fileIdx' = fileIdx + 1
              /\ ruleResults' = rr
              /\ attempt' = 0
              /\ delayMs' = 0
              /\ UNCHANGED <<rule, ruleIdx, files, results>>
         ELSE /\ ToNextRule
              /\ results' = results \o rr
    /\ UNCHANGED <<retryConfig, ruleCount>>

\* processRule after uploadSingleFile returned (a result or null): the next
\* file of a directory rule, or the return to uploadFiles, which pushes the
\* rule's results.
FileFinished(st, rr, hi, rn) ==
    /\ stats' = st
    /\ hist' = hi
    /\ run' = rn
    /\ IF rule.isDirectory /\ fileIdx < files
         THEN /\ pc' = "statting"
              /\ fileIdx' = fileIdx + 1
              /\ ruleResults' = rr
              /\ attempt' = 0
              /\ delayMs' = 0
              /\ UNCHANGED <<rule, ruleIdx, files, results>>
         ELSE /\ ToNextRule
              /\ results' = results \o rr
    /\ UNCHANGED <<retryConfig, ruleCount>>

\* performUpload: the result of a put that resolved.  filePath and objectKey
\* are the arguments of uploadSingleFile, known for a rule that carries its
\* list of files.
UploadResult ==
    LET known == "files" \in DOMAIN rule
    IN  [success |-> TRUE, rule |-> ruleIdx, file |-> fileIdx,
         filePath |-> IF known THEN rule.files[fileIdx] ELSE <<>>,
         objectKey |-> IF known THEN remotePath(rule, rule.files, rule.files[fileIdx])
                       ELSE <<>>]

\* A variant that returns a result for the failure.
SingleFileCatch_returnsFailure(error, st, hi, rn) ==
    LET st1 == [st EXCEPT !.failedFiles = @ + 1]
        hi1 == [hi EXCEPT !.failedInc = @ + 1, !.outcome = "failed",
                          !.fnfRaised = @ \/ error.class = "FileNotFoundError"]
    IN  IF error.class = "FileNotFoundError"
          THEN RuleThrew(st1, hi1, rn)
          ELSE FileFinished(st1, Append(ruleResults,
                                        [UploadResult EXCEPT !.success = FALSE]),
                            hi1, rn)

\* uploadSingleFile, catch block: count the failure, rethrow a
\* FileNotFoundError, return null for every other error.
SingleFileCatch(error, st, hi, rn) ==
    LET st1 == [st EXCEPT !.failedFiles = @ + 1]
        hi1 == [hi EXCEPT !.failedInc = @ + 1, !.outcome = "failed",
                          !.fnfRaised = @ \/ error.class = "FileNotFoundError"]
    IN  IF error.class = "FileNotFoundError"
          THEN RuleThrew(st1, hi1, rn)
          ELSE FileFinished(st1, ruleResults, hi1, rn)

\* uploadWithRetry, catch block of one attempt.
AttemptFailed(error) ==
    LET retryable == isRetryableError(error)
        hi == [hist EXCEPT !.retryableFailures = IF retryable THEN @ + 1 ELSE @,
                           !.otherFailures = IF retryable THEN @ ELSE @ + 1]
    IN  IF rethrows(error, attempt)
          THEN SingleFileCatch(error, stats, hi, run)
          ELSE /\ delayMs' = calculateBackoffDelay(attempt, retryConfig.baseDelay,
                                                   retryConfig.maxDelay,
                                                   retryConfig.backoffMultiplier)
               /\ hist' = [hi EXCEPT !.delays = Append(@, delayMs')]
               /\ pc' = "delaying"
               /\ UNCHANGED <<retryConfig, stats, ruleCount, rule, ruleIdx, files, fileIdx,
                              attempt, ruleResults, results, run>>

\* uploadWithRetry fell out of its loop: return null.  uploadSingleFile then
\* returns null without touching the counters.
ReturnsNull(st, hi) ==
    FileFinished(st, ruleResults, [hi EXCEPT !.outcome = "dropped"], run)

\* ----------------------------------------------------------------- actions
\* uploadFiles(rules): entry.
UploadFilesCall(n) ==
    /\ pc = "idle"
    /\ ruleCount' = n
    /\ rule' = NoRule
    /\ ruleIdx' = 1
    /\ pc' = "rule"
    /\ run' = FreshRun
    /\ results' = <<>>
    /\ UNCHANGED <<retryConfig, stats, files, fileIdx, attempt, delayMs,
                   ruleResults, hist>>

\* A variant that counts every rule without a match as a failure.
NoFilesFound_alwaysFailure(st, isSpecificFile) ==
    [st EXCEPT !.totalFiles = @ + 1, !.failedFiles = @ + 1]

\* processRule, files.length === 0: a specific file that does not exist is
\* counted as a failure, a pattern without a match is not.
NoFilesFound(st, isSpecificFile) ==
    IF isSpecificFile
      THEN [st EXCEPT !.totalFiles = @ + 1, !.failedFiles = @ + 1]
      ELSE st

\* processRule up to its first await.  src: what the file system holds at
\* rule.source; n: the number of files fg.sync returns; throws: fg.sync or
\* statSync raises.  fg.sync (onlyFiles) returns the one file a pattern
\* without glob characters names, if it is a regular file, and nothing for a
\* path that does not exist.
ProcessRule(r, src, n, throws) ==
    /\ pc = "rule"
    /\ ruleIdx <= ruleCount
    /\ LET srcIsFile == src = "file"   \* existsSync(..) && statSync(..).isFile()
           \* sourcePattern holds a glob character after the conversion
           patternHasGlob == r.sourceHasGlob \/ (r.isDirectory /\ ~srcIsFile)
           isSpecificFile == ~patternHasGlob
           rn == [run EXCEPT !.processed = @ + 1,
                             !.resolutionFailed = @ \/ throws \/ n = 0]
           hi == [FreshHist EXCEPT !.noMatch =
                     IF throws \/ n > 0 THEN "none"
                     ELSE IF r.sourceHasGlob THEN "glob"
                     ELSE IF src = "missing" THEN "missing"
                     ELSE "other"]
       IN  /\ isSpecificFile => n = (IF srcIsFile THEN 1 ELSE 0)
           /\ (~r.sourceHasGlob /\ src = "missing") => n = 0
           /\ IF throws
                THEN RuleThrew(stats, hi, rn)
                ELSE IF n = 0
                  THEN /\ stats' = NoFilesFound(stats, isSpecificFile)
                       /\ hist' = hi
                       /\ run' = rn
                       /\ ToNextRule
                       /\ UNCHANGED <<retryConfig, ruleCount, results>>
                  ELSE /\ stats' = [stats EXCEPT !.totalFiles = @ + n]
                       /\ rule' = r
                       /\ files' = n
                       /\ fileIdx' = 1
                       /\ pc' = "statting"
                       /\ hist' = hi
                       /\ run' = rn
                       /\ ruleResults' = <<>>
                       /\ UNCHANGED <<retryConfig, ruleCount, ruleIdx, attempt,
                                      delayMs, results>>

\* A variant that leaves totalSize alone.
StatResolves_sizeUncounted(size) ==
    /\ pc = "statting"
    /\ LET hi == [FreshHist EXCEPT !.outcome = "active", !.size = size]
       IN  IF 0 < retryConfig.maxRetries
             THEN /\ attempt' = 0
                  /\ pc' = "putting"
                  /\ hist' = [hi EXCEPT !.putCalls = 1]
                  /\ UNCHANGED <<retryConfig, stats, ruleCount, rule, ruleIdx, files,
                                 fileIdx, delayMs, ruleResults, results, run>>
             ELSE ReturnsNull(stats, hi)

\* uploadSingleFile: getFileStats resolved with a size.  The retry loop
\* starts and performUpload invokes oss.put, unless maxRetries admits no
\* attempt.
StatResolves(size) ==
    /\ pc = "statting"
    /\ LET st == [stats EXCEPT !.totalSize = @ + size]
           hi == [FreshHist EXCEPT !.outcome = "active", !.size = size]
       IN  IF 0 < retryConfig.maxRetries
             THEN /\ stats' = st
                  /\ attempt' = 0
                  /\ pc' = "putting"
                  /\ hist' = [hi EXCEPT !.putCalls = 1]
                  /\ UNCHANGED <<retryConfig, ruleCount, rule, ruleIdx, files, fileIdx, delayMs,
                                 ruleResults, results, run>>
             ELSE ReturnsNull(st, hi)

\* uploadSingleFile: getFileStats rejected.
StatRejects(error) ==
    /\ pc = "statting"
    /\ SingleFileCatch(error, stats,
                       [FreshHist EXCEPT !.outcome = "active"], run)

\* performUpload: oss.put resolved; getFileStats is called for the size.
PutResolves ==
    /\ pc = "putting"
    /\ pc' = "poststat"
    /\ hist' = [hist EXCEPT !.putSucceeded = TRUE]
    /\ UNCHANGED <<retryConfig, stats, ruleCount, rule, ruleIdx, files, fileIdx,
                   attempt, delayMs, ruleResults, results, run>>

\* performUpload: oss.put rejected.
PutRejects(error) ==
    /\ pc = "putting"
    /\ AttemptFailed(error)

\* performUpload: the getFileStats after the put resolved.  The attempt
\* succeeded: uploadWithRetry returns the result and uploadSingleFile counts it.
PostStatResolves ==
    /\ pc = "poststat"
    /\ FileFinished([stats EXCEPT !.uploadedFiles = @ + 1,
                                  !.uploadedSize = @ + hist.size],
                    Append(ruleResults, UploadResult),
                    [hist EXCEPT !.outcome = "uploaded", !.uploadedInc = @ + 1,
                                 !.resultInc = @ + 1],
                    run)

\* performUpload: the getFileStats after the put rejected: the attempt failed.
PostStatRejects(error) ==
    /\ pc = "poststat"
    /\ AttemptFailed(error)

\* A variant whose loop does not advance: the attempt is made again under
\* the same index.
DelayElapsed_sameAttempt ==
    /\ pc = "delaying"
    /\ attempt' = attempt
    /\ pc' = "putting"
    /\ delayMs' = 0
    /\ hist' = [hist EXCEPT !.putCalls = @ + 1]
    /\ UNCHANGED <<retryConfig, stats, ruleCount, rule, ruleIdx, files, fileIdx,
                   ruleResults, results, run>>

\* uploadWithRetry: the delay elapsed; the loop goes on with the next attempt.
DelayElapsed ==
    /\ pc = "delaying"
    /\ IF attempt + 1 < retryConfig.maxRetries
         THEN /\ attempt' = attempt + 1
              /\ pc' = "putting"
              /\ delayMs' = 0
              /\ hist' = [hist EXCEPT !.putCalls = @ + 1]
              /\ UNCHANGED <<retryConfig, stats, ruleCount, rule, ruleIdx, files, fileIdx,
                             ruleResults, results, run>>
         ELSE ReturnsNull(stats, hist)

\* uploadFiles: the for loop is over; the success rate is written and the
\* results are returned.
UploadFilesReturns ==
    /\ pc = "rule"
    /\ ruleIdx > ruleCount
    /\ pc' = "done"
    /\ stats' = [stats EXCEPT !.successRate = successRate(stats)]
    /\ UNCHANGED <<retryConfig, ruleCount, rule, ruleIdx, files, fileIdx,
                   attempt, delayMs, ruleResults, results, hist, run>>

\* The upload engine under every retry configuration; the files are empty
\* (the byte counts are followed in SpecSizes).
Next ==
    \/ \E n \in 0..MaxRules : UploadFilesCall(n) /\ UNCHANGED others
    \/ \E r \in Rules, src \in SourceKinds, n \in 0..MaxFiles, throws \in BOOLEAN :
          ProcessRule(r, src, n, throws) /\ UNCHANGED others
    \/ StatResolves(0) /\ UNCHANGED others
    \/ \E error \in StatErrors : StatRejects(error) /\ UNCHANGED others
    \/ PutResolves /\ UNCHANGED others
    \/ \E error \in PutErrors : PutRejects(error) /\ UNCHANGED others
    \/ PostStatResolves /\ UNCHANGED others
    \/ \E error \in StatErrors : PostStatRejects(error) /\ UNCHANGED others
    \/ DelayElapsed /\ UNCHANGED others
    \/ UploadFilesReturns /\ UNCHANGED others

Spec == Init /\ [][Next]_vars

\* The lengths of the rule lists and of the resolution results followed
\* when the completion of the awaited calls is assumed.
RuleCounts == 0..2

FileCounts == 0..2

\* The steps of a call of uploadFiles that is under way: the synchronous
\* parts of the code and the completions of the awaited stat, put and delay
\* calls.
Steps ==
    \/ \E r \in Rules, src \in SourceKinds, n \in FileCounts, throws \in BOOLEAN :
          ProcessRule(r, src, n, throws) /\ UNCHANGED others
    \/ StatResolves(0) /\ UNCHANGED others
    \/ \E error \in StatErrors : StatRejects(error) /\ UNCHANGED others
    \/ PutResolves /\ UNCHANGED others
    \/ \E error \in PutErrors : PutRejects(error) /\ UNCHANGED others
    \/ PostStatResolves /\ UNCHANGED others
    \/ \E error \in StatErrors : PostStatRejects(error) /\ UNCHANGED others
    \/ DelayElapsed /\ UNCHANGED others
    \/ UploadFilesReturns /\ UNCHANGED others

NextLive ==
    \/ \E n \in RuleCounts : UploadFilesCall(n) /\ UNCHANGED others
    \/ Steps

\* The upload engine when the code runs on and every awaited stat, put and
\* delay call completes.
SpecLive == Init /\ [][NextLive]_vars /\ WF_vars(Steps)


\* ------------------------------------------------- one file, many attempts
\* uploadFiles with one rule that resolves to one file, under the wide retry
\* configurations.
InitRetry ==
    /\ retryConfig \in RetryConfigsWide
    /\ UploaderInit
    /\ cls = NoProbe
    /\ probe = NoCall
    /\ act = NoRun

NextRetry ==
    \/ UploadFilesCall(1) /\ UNCHANGED others
    \/ \E r \in Rules : ProcessRule(r, "file", 1, FALSE) /\ UNCHANGED others
    \/ StatResolves(0) /\ UNCHANGED others
    \/ \E error \in StatErrors : StatRejects(error) /\ UNCHANGED others
    \/ PutResolves /\ UNCHANGED others
    \/ \E error \in PutErrors : PutRejects(error) /\ UNCHANGED others
    \/ PostStatResolves /\ UNCHANGED others
    \/ \E error \in StatErrors : PostStatRejects(error) /\ UNCHANGED others
    \/ DelayElapsed /\ UNCHANGED others
    \/ UploadFilesReturns /\ UNCHANGED others

SpecRetry == InitRetry /\ [][NextRetry]_vars

\* ------------------------------------------------------- the byte counts
\* uploadFiles over files of several sizes, under at most one attempt for a
\* file (no delay is taken then).
InitSizes ==
    /\ retryConfig \in RetryConfigsFew
    /\ UploaderInit
    /\ cls = NoProbe
    /\ probe = NoCall
    /\ act = NoRun

NextSizes ==
    \/ \E n \in RuleCountsFew : UploadFilesCall(n) /\ UNCHANGED others
    \/ \E r \in Rules, src \in SourceKinds, n \in 0..MaxFiles :
          ProcessRule(r, src, n, FALSE) /\ UNCHANGED others
    \/ \E size \in Sizes : StatResolves(size) /\ UNCHANGED others
    \/ \E error \in StatErrors : StatRejects(error) /\ UNCHANGED others
    \/ PutResolves /\ UNCHANGED others
    \/ \E error \in PutErrors : PutRejects(error) /\ UNCHANGED others
    \/ PostStatResolves /\ UNCHANGED others
    \/ \E error \in StatErrors : PostStatRejects(error) /\ UNCHANGED others
    \/ UploadFilesReturns /\ UNCHANGED others

SpecSizes == InitSizes /\ [][NextSizes]_vars

\* ------------------------------------------------------------ remote keys
\* performUpload: the arguments of this.oss.put(remotePath, resolve(localPath))
\* for the file at hand of a rule that carries its list of files.
putLocalPath == resolve(rule.files[fileIdx])

putObjectKey == remotePath(rule, rule.files, rule.files[fileIdx])

\* uploadFiles with one rule over a file system, under at most one attempt
\* for a file.
InitKeys ==
    /\ retryConfig \in RetryConfigsFew
    /\ UploaderInit
    /\ cls = NoProbe
    /\ probe = NoCall
    /\ act = NoRun

NextKeys ==
    \/ UploadFilesCall(1) /\ UNCHANGED others
    \/ \E r \in KeyRules : ProcessRule(r, r.kind, Len(r.files), FALSE) /\ UNCHANGED others
    \/ StatResolves(0) /\ UNCHANGED others
    \/ \E error \in StatErrors : StatRejects(error) /\ UNCHANGED others
    \/ PutResolves /\ UNCHANGED others
    \/ \E error \in PutErrors : PutRejects(error) /\ UNCHANGED others
    \/ PostStatResolves /\ UNCHANGED others
    \/ \E error \in StatErrors : PostStatRejects(error) /\ UNCHANGED others
    \/ UploadFilesReturns /\ UNCHANGED others

SpecKeys == InitKeys /\ [][NextKeys]_vars

\* ------------------------------------------------------------ accessors
\* An object a caller holds: ref is its identity (0 is the uploader's own
\* this.stats, k > 0 the k-th object created since), val its fields.
\* A variant that hands out the uploader's own object.
getStats_alias(fresh) == [ref |-> 0, val |-> stats]

\* OSSUploader.getStats: return { ...this.stats }, a new object that holds
\* the fields of this.stats.
getStats(fresh) == [ref |-> fresh, val |-> stats]

\* A caller calls getStats and keeps what it returns.
GetStatsCall ==
    /\ Len(got) < MaxCopies
    /\ got' = Append(got, getStats(Len(got) + 1))
    /\ UNCHANGED <<retryConfig, stats, pc, ruleCount, rule, ruleIdx, files, fileIdx,
                   attempt, delayMs, ruleResults, results, hist, run, cls, conn,
                   probe, act>>

\* The fields a caller writes and the value it writes.
MutatedFields == {"uploadedFiles"}

MutatedValue == 999

\* A caller assigns to a field of the i-th object it holds.  The write goes
\* to the object the reference denotes, whoever else holds it.
MutateReturned(i, field, v) ==
    /\ i \in DOMAIN got
    /\ got[i].val[field] # v
    /\ IF got[i].ref = 0
         THEN /\ stats' = [stats EXCEPT ![field] = v]
              /\ got' = got
         ELSE /\ stats' = stats
              /\ got' = [j \in DOMAIN got |->
                           IF got[j].ref = got[i].ref
                             THEN [got[j] EXCEPT !.val[field] = v]
                             ELSE got[j]]
    /\ UNCHANGED <<retryConfig, pc, ruleCount, rule, ruleIdx, files, fileIdx,
                   attempt, delayMs, ruleResults, results, hist, run, cls, conn,
                   probe, act>>

\* testConnection: entry, up to the await of oss.getBucketInfo(bucket).
TestConnectionCall ==
    /\ conn.pc \in {"idle", "returned"}
    /\ conn' = [pc |-> "awaiting", result |-> FALSE, call |-> "pending"]
    /\ UNCHANGED <<retryConfig, stats, pc, ruleCount, rule, ruleIdx, files, fileIdx,
                   attempt, delayMs, ruleResults, results, hist, run, cls, got,
                   probe, act>>

\* testConnection: getBucketInfo resolved: return true.
BucketInfoResolves ==
    /\ conn.pc = "awaiting"
    /\ conn' = [pc |-> "returned", result |-> TRUE, call |-> "resolved"]
    /\ UNCHANGED <<retryConfig, stats, pc, ruleCount, rule, ruleIdx, files, fileIdx,
                   attempt, delayMs, ruleResults, results, hist, run, cls, got,
                   probe, act>>

\* A variant that lets the error through.
BucketInfoRejects_rethrow(error) ==
    /\ conn.pc = "awaiting"
    /\ conn' = [pc |-> "threw", result |-> FALSE, call |-> "rejected"]
    /\ UNCHANGED <<retryConfig, stats, pc, ruleCount, rule, ruleIdx, files, fileIdx,
                   attempt, delayMs, ruleResults, results, hist, run, cls, got,
                   probe, act>>

\* testConnection: getBucketInfo rejected: the catch block returns false.
BucketInfoRejects(error) ==
    /\ conn.pc = "awaiting"
    /\ conn' = [pc |-> "returned", result |-> FALSE, call |-> "rejected"]
    /\ UNCHANGED <<retryConfig, stats, pc, ruleCount, rule, ruleIdx, files, fileIdx,
                   attempt, delayMs, ruleResults, results, hist, run, cls, got,
                   probe, act>>

\* An uploader whose callers read the statistics and test the connection
\* while it uploads one file.
InitAccessors ==
    /\ retryConfig \in RetryConfigsFew
    /\ UploaderInit
    /\ cls = NoProbe
    /\ probe = NoCall
    /\ act = NoRun

NextAccessors ==
    \/ GetStatsCall
    \/ \E i \in 1..MaxCopies, field \in MutatedFields :
          MutateReturned(i, field, MutatedValue)
    \/ TestConnectionCall
    \/ BucketInfoResolves
    \/ \E error \in PutErrors : BucketInfoRejects(error)
    \/ UploadFilesCall(1) /\ UNCHANGED others
    \/ \E r \in Rules : ProcessRule(r, "file", 1, FALSE) /\ UNCHANGED others
    \/ \E size \in Sizes : StatResolves(size) /\ UNCHANGED others
    \/ \E error \in StatErrors : StatRejects(error) /\ UNCHANGED others
    \/ PutResolves /\ UNCHANGED others
    \/ \E error \in PutErrors : PutRejects(error) /\ UNCHANGED others
    \/ PostStatResolves /\ UNCHANGED others
    \/ \E error \in StatErrors : PostStatRejects(error) /\ UNCHANGED others
    \/ UploadFilesReturns /\ UNCHANGED others

SpecAccessors == InitAccessors /\ [][NextAccessors]_vars

\* ------------------------------------------------ the classification alone
\* isRetryableError applied to every error value.
InitClassify ==
    /\ retryConfig = RetryConfig(3, DefaultBackoff)
    /\ UploaderInit
    /\ cls \in {[done |-> FALSE, error |-> e, retryable |-> FALSE] : e \in Errors}
    /\ probe = NoCall
    /\ act = NoRun

Classify ==
    /\ ~cls.done
    /\ cls' = [cls EXCEPT !.done = TRUE, !.retryable = isRetryableError(cls.error)]
    /\ UNCHANGED <<retryConfig, stats, pc, ruleCount, rule, ruleIdx, files, fileIdx,
                   attempt, delayMs, ruleResults, results, hist, run, got, conn,
                   probe, act>>

NextClassify == Classify

SpecClassify == InitClassify /\ [][NextClassify]_vars


\* ------------------------------------------------ sanitizeRemotePath alone
MaxPathLen == 5

PathTokens == {"/", "a", "b"}

\* Every path of at most n tokens.
Paths(n) == UNION {[1..k -> PathTokens] : k \in 0..n}

\* '///multiple///slashes///' of utils.test.ts.
SlashesExample ==
    <<"/", "/", "/", "multiple", "/", "/", "/", "slashes", "/", "/", "/">>

SanitizeInputs == Paths(MaxPathLen) \cup {SlashesExample}

InitSanitize ==
    /\ retryConfig = RetryConfig(3, DefaultBackoff)
    /\ UploaderInit
    /\ cls = NoProbe
    /\ probe \in {[NoCall EXCEPT !.input = p] : p \in SanitizeInputs}
    /\ act = NoRun

Sanitize ==
    /\ ~probe.done
    /\ probe' = [probe EXCEPT !.done = TRUE,
                              !.output = sanitizeRemotePath(probe.input)]
    /\ UNCHANGED <<retryConfig, stats, pc, ruleCount, rule, ruleIdx, files, fileIdx,
                   attempt, delayMs, ruleResults, results, hist, run, cls, got, conn,
                   act>>

NextSanitize == Sanitize

SpecSanitize == InitSanitize /\ [][NextSanitize]_vars


\* ------------------------------------------------------- parseUploadRules
\* A text is a sequence of tokens: the line break, the colon, the blank, the
\* separator "/" and names.
Whitespace == {" ", "\n"}

RECURSIVE trimStart(_)
trimStart(s) ==
    IF s # <<>> /\ Head(s) \in Whitespace THEN trimStart(Tail(s)) ELSE s

RECURSIVE trimEnd(_)
trimEnd(s) ==
    IF s # <<>> /\ Last(s) \in Whitespace
      THEN trimEnd(SubSeq(s, 1, Len(s) - 1))
      ELSE s

\* A variant that removes one blank at most from each end.
trim_once(s) ==
    LET t == IF s # <<>> /\ Head(s) \in Whitespace THEN Tail(s) ELSE s
    IN  IF t # <<>> /\ Last(t) \in Whitespace THEN SubSeq(t, 1, Len(t) - 1) ELSE t

\* String.prototype.trim
trim(s) == trimEnd(trimStart(s))

\* String.prototype.indexOf, counted from 1: 0 when t is not in s.
indexOf(s, t) ==
    IF \E i \in DOMAIN s : s[i] = t
      THEN CHOOSE i \in DOMAIN s : s[i] = t /\ \A j \in 1..(i - 1) : s[j] # t
      ELSE 0

\* A variant that finds the first occurrence.
lastIndexOf_first(s, t) == indexOf(s, t)

\* String.prototype.lastIndexOf, counted from 1: 0 when t is not in s.
lastIndexOf(s, t) ==
    IF \E i \in DOMAIN s : s[i] = t
      THEN CHOOSE i \in DOMAIN s : s[i] = t /\ \A j \in (i + 1)..Len(s) : s[j] # t
      ELSE 0

\* String.prototype.split(sep)
RECURSIVE split(_, _)
split(s, sep) ==
    LET i == indexOf(s, sep)
    IN  IF i = 0 THEN <<s>>
        ELSE <<SubSeq(s, 1, i - 1)>> \o split(SubSeq(s, i + 1, Len(s)), sep)

\* A variant for which a destination that holds a "/" anywhere is a directory.
UploadRule_anySlash(source, destination) ==
    [source |-> source, destination |-> destination,
     isDirectory |-> \E i \in DOMAIN destination : destination[i] = "/"]

\* parseUploadRules: the rule pushed for a valid line.
UploadRule(source, destination) ==
    [source |-> source, destination |-> destination,
     isDirectory |-> endsWithSlash(destination)]

\* parseUploadRules: the body of the loop, for one line: the rules it pushes.
parseLine(line) ==
    LET trimmed == trim(line)
        separatorIndex == lastIndexOf(trimmed, ":")
    IN  IF trimmed = <<>> THEN <<>>
        ELSE IF separatorIndex = 0 THEN <<>>
        ELSE LET source == trim(SubSeq(trimmed, 1, separatorIndex - 1))
                 destination ==
                     trim(SubSeq(trimmed, separatorIndex + 1, Len(trimmed)))
             IN  IF source = <<>> \/ destination = <<>> THEN <<>>
                 ELSE <<UploadRule(source, destination)>>

\* parseUploadRules: the loop over the lines.
RECURSIVE parseLines(_)
parseLines(lines) ==
    IF lines = <<>> THEN <<>>
    ELSE parseLine(Head(lines)) \o parseLines(Tail(lines))

\* A variant that gives up at the first line that yields no rule.
RECURSIVE parseLines_stop(_)
parseLines_stop(lines) ==
    IF lines = <<>> \/ parseLine(Head(lines)) = <<>> THEN <<>>
    ELSE parseLine(Head(lines)) \o parseLines_stop(Tail(lines))

parseUploadRules_stopAtInvalid(assets) == parseLines_stop(split(assets, "\n"))

\* utils.parseUploadRules
parseUploadRules(assets) == parseLines(split(assets, "\n"))

\* A rule list written as rule text: 'source:destination', one per line.
RECURSIVE serialize(_)
serialize(rules) ==
    IF rules = <<>> THEN <<>>
    ELSE Head(rules).source \o <<":">> \o Head(rules).destination
           \o (IF Len(rules) = 1 THEN <<>> ELSE <<"\n">> \o serialize(Tail(rules)))

MaxTextLen == 5

TextTokens == {"\n", ":", " ", "a", "/"}

\* Every text of at most n tokens.
Texts(n) == UNION {[1..k -> TextTokens] : k \in 0..n}

\* Five lines, three of them malformed.
MalformedExample ==
    <<"src", "/", "**", "/", "*", ":", "dist", "/", "\n",
      "invalid", "\n",
      ":", "nosrc", "\n",
      "nodst", ":", "\n",
      "README.md", ":", "docs", "/", "r.md">>

\* C:\file:dest/
DriveExample == <<"C", ":", "\\file", ":", "dest", "/">>

\* The same rule twice, and a rule behind three blanks.
RepeatedExample == <<"a", ":", "a", "\n", "a", ":", "a">>

PaddedExample == <<" ", " ", " ", "a", ":", "a">>

ParseInputs ==
    Texts(MaxTextLen)
        \cup {MalformedExample, DriveExample, RepeatedExample, PaddedExample}

InitParse ==
    /\ retryConfig = RetryConfig(3, DefaultBackoff)
    /\ UploaderInit
    /\ cls = NoProbe
    /\ probe \in {[NoCall EXCEPT !.input = t] : t \in ParseInputs}
    /\ act = NoRun

Parse ==
    /\ ~probe.done
    /\ probe' = [probe EXCEPT !.done = TRUE,
                              !.output = parseUploadRules(probe.input)]
    /\ UNCHANGED <<retryConfig, stats, pc, ruleCount, rule, ruleIdx, files, fileIdx,
                   attempt, delayMs, ruleResults, results, hist, run, cls, got, conn,
                   act>>

\* The parsed rules are written as rule text and the text is parsed.
Reparse ==
    /\ probe.done
    /\ ~probe.reparsed
    /\ probe' = [probe EXCEPT !.reparsed = TRUE,
                              !.again = parseUploadRules(serialize(probe.output))]
    /\ UNCHANGED <<retryConfig, stats, pc, ruleCount, rule, ruleIdx, files, fileIdx,
                   attempt, delayMs, ruleResults, results, hist, run, cls, got, conn,
                   act>>

NextParse == Parse \/ Reparse

SpecParse == InitParse /\ [][NextParse]_vars


\* ------------------------------------------------------------------ run()
\* The inputs as getActionInputs returns them (core.getInput trims them):
\* the bucket, empty or not; the assets; continue-on-error.  The access
\* keys, the timeout and max-retries are taken as valid.
Buckets == {<<>>, <<"bucket">>}

AssetsInputs ==
    {<<>>,
     <<"invalid">>,
     <<":", "nosrc", "\n", "nodst", ":">>,
     <<"a", ":", "k">>,
     <<"a", ":", "k", "\n", "invalid", "\n", "*", ":", "up", "/">>}

ContinueOnErrorInputs == {"true", "false", "TRUE"}

\* utils.validateInputs: the message of the ValidationError it throws, or
\* "none".
validateInputs(inputs) ==
    IF inputs.bucket = <<>> THEN "Required input 'bucket' is missing"
    ELSE IF inputs.assets = <<>> THEN "Required input 'assets' is missing"
    ELSE "none"

NoValidRules == "No valid upload rules found in assets input"

\* `Upload incomplete: ${stats.failedFiles} file(s) failed to upload`
UploadIncomplete == "Upload incomplete: file(s) failed to upload"

\* run(): getActionInputs and validateInputs; a ValidationError goes to the
\* catch block, which marks the action failed.  Otherwise the uploader is
\* constructed and run() goes on to testConnection.
RunCall(bucket, assets, continueOnError) ==
    /\ act.pc = "idle"
    /\ LET inputs == [bucket |-> bucket, assets |-> assets,
                      continueOnError |-> continueOnError]
           error == validateInputs(inputs)
       IN  act' = [act EXCEPT !.bucket = bucket, !.assets = assets,
                              !.continueOnError = continueOnError,
                              !.pc = IF error = "none" THEN "connect" ELSE "end",
                              !.failed = error]
    /\ UNCHANGED <<retryConfig, stats, pc, ruleCount, rule, ruleIdx, files, fileIdx,
                   attempt, delayMs, ruleResults, results, hist, run, cls, got, conn,
                   probe>>

\* A variant that gives up when the connection test failed.
RunConnectionTested_strict ==
    /\ act.pc = "connect"
    /\ conn.pc = "returned"
    /\ LET rules == parseUploadRules(act.assets)
       IN  IF rules = <<>> \/ ~conn.result
             THEN /\ act' = [act EXCEPT !.pc = "end", !.warned = ~conn.result,
                                        !.failed = NoValidRules]
                  /\ UNCHANGED <<retryConfig, stats, pc, ruleCount, rule, ruleIdx, files,
                                 fileIdx, attempt, delayMs, ruleResults, results, hist,
                                 run>>
             ELSE /\ act' = [act EXCEPT !.pc = "upload", !.warned = ~conn.result,
                                        !.rules = rules, !.uploadCalls = @ + 1]
                  /\ UploadFilesCall(Len(rules))
    /\ UNCHANGED <<cls, got, conn, probe>>

\* A variant that calls uploadFiles whatever parseUploadRules returned.
RunConnectionTested_noCheck ==
    /\ act.pc = "connect"
    /\ conn.pc = "returned"
    /\ act' = [act EXCEPT !.pc = "upload", !.warned = ~conn.result,
                           !.rules = parseUploadRules(act.assets),
                           !.uploadCalls = @ + 1]
    /\ UploadFilesCall(Len(parseUploadRules(act.assets)))
    /\ UNCHANGED <<cls, got, conn, probe>>

\* run() after testConnection returned: a warning when it returned false,
\* then parseUploadRules; without a rule the action is marked failed and
\* run() returns, otherwise uploadFiles is called.
RunConnectionTested ==
    /\ act.pc = "connect"
    /\ conn.pc = "returned"
    /\ LET rules == parseUploadRules(act.assets)
       IN  IF rules = <<>>
             THEN /\ act' = [act EXCEPT !.pc = "end", !.warned = ~conn.result,
                                        !.failed = NoValidRules]
                  /\ UNCHANGED <<retryConfig, stats, pc, ruleCount, rule, ruleIdx, files,
                                 fileIdx, attempt, delayMs, ruleResults, results, hist,
                                 run>>
             ELSE /\ act' = [act EXCEPT !.pc = "upload", !.warned = ~conn.result,
                                        !.rules = rules, !.uploadCalls = @ + 1]
                  /\ UploadFilesCall(Len(rules))
    /\ UNCHANGED <<cls, got, conn, probe>>

\* The rule uploadFiles hands to processRule, as the uploader reads it.
RunRule ==
    [isDirectory |-> act.rules[ruleIdx].isDirectory,
     sourceHasGlob |-> hasGlob(act.rules[ruleIdx].source)]

\* A variant that marks the action failed whenever a file failed.
RunUploadReturned_ignoresInput ==
    /\ act.pc = "upload"
    /\ pc = "done"
    /\ LET st == getStats(1).val
       IN  act' = [act EXCEPT !.pc = "end",
                              !.reported = Append(@, st.failedFiles),
                              !.failed = IF st.failedFiles > 0
                                           THEN UploadIncomplete ELSE "none"]
    /\ UNCHANGED <<retryConfig, stats, pc, ruleCount, rule, ruleIdx, files, fileIdx,
                   attempt, delayMs, ruleResults, results, hist, run, cls, got, conn,
                   probe>>

\* run() after uploadFiles returned: getStats, setActionOutputs,
\* createJobSummary (which write without error), then the verdict.
RunUploadReturned ==
    /\ act.pc = "upload"
    /\ pc = "done"
    /\ LET st == getStats(1).val
           continueOnError == act.continueOnError = "true"
       IN  act' = [act EXCEPT !.pc = "end",
                              !.reported = Append(@, st.failedFiles),
                              !.failed = IF ~continueOnError /\ st.failedFiles > 0
                                           THEN UploadIncomplete ELSE "none"]
    /\ UNCHANGED <<retryConfig, stats, pc, ruleCount, rule, ruleIdx, files, fileIdx,
                   attempt, delayMs, ruleResults, results, hist, run, cls, got, conn,
                   probe>>

InitRun ==
    /\ retryConfig \in RetryConfigsFew
    /\ UploaderInit
    /\ cls = NoProbe
    /\ probe = NoCall
    /\ act = NoRun

NextRun ==
    \/ \E bucket \in Buckets, assets \in AssetsInputs,
          continueOnError \in ContinueOnErrorInputs :
          RunCall(bucket, assets, continueOnError)
    \/ act.pc = "connect" /\ conn.pc = "idle" /\ TestConnectionCall
    \/ BucketInfoResolves
    \/ \E error \in PutErrors : BucketInfoRejects(error)
    \/ RunConnectionTested
    \/ \E src \in SourceKinds, n \in 0..MaxFiles, throws \in BOOLEAN :
          ProcessRule(RunRule, src, n, throws) /\ UNCHANGED others
    \/ StatResolves(0) /\ UNCHANGED others
    \/ \E error \in StatErrors : StatRejects(error) /\ UNCHANGED others
    \/ PutResolves /\ UNCHANGED others
    \/ \E error \in PutErrors : PutRejects(error) /\ UNCHANGED others
    \/ PostStatResolves /\ UNCHANGED others
    \/ \E error \in StatErrors : PostStatRejects(error) /\ UNCHANGED others
    \/ UploadFilesReturns /\ UNCHANGED others
    \/ RunUploadReturned

SpecRun == InitRun /\ [][NextRun]_vars


\* --------------------------------------- several calls on one instance
\* The calls of uploadFiles made on one uploader, one after the other.
MaxCalls == 2

\* A variant that starts every call from fresh statistics.
UploadFilesAgain_fresh(n) ==
    /\ pc = "done"
    /\ run.calls + 1 < MaxCalls
    /\ ruleCount' = n
    /\ rule' = NoRule
    /\ ruleIdx' = 1
    /\ pc' = "rule"
    /\ run' = [FreshRun EXCEPT !.calls = run.calls + 1]
    /\ results' = <<>>
    /\ stats' = InitialStats
    /\ UNCHANGED <<retryConfig, files, fileIdx, attempt, delayMs, ruleResults, hist>>

\* uploadFiles(rules) called on an uploader whose previous call has
\* returned: the results start empty, this.stats is left as it is.
UploadFilesAgain(n) ==
    /\ pc = "done"
    /\ run.calls + 1 < MaxCalls
    /\ ruleCount' = n
    /\ rule' = NoRule
    /\ ruleIdx' = 1
    /\ pc' = "rule"
    /\ run' = [FreshRun EXCEPT !.calls = run.calls + 1]
    /\ results' = <<>>
    /\ UNCHANGED <<retryConfig, stats, files, fileIdx, attempt, delayMs,
                   ruleResults, hist>>

InitLifetime ==
    /\ retryConfig \in RetryConfigsFew
    /\ UploaderInit
    /\ cls = NoProbe
    /\ probe = NoCall
    /\ act = NoRun

NextLifetime ==
    \/ UploadFilesCall(1) /\ UNCHANGED others
    \/ UploadFilesAgain(1) /\ UNCHANGED others
    \/ \E r \in Rules, src \in SourceKinds, n \in 0..MaxFiles, throws \in BOOLEAN :
          ProcessRule(r, src, n, throws) /\ UNCHANGED others
    \/ \E size \in Sizes : StatResolves(size) /\ UNCHANGED others
    \/ \E error \in StatErrors : StatRejects(error) /\ UNCHANGED others
    \/ PutResolves /\ UNCHANGED others
    \/ \E error \in PutErrors : PutRejects(error) /\ UNCHANGED others
    \/ PostStatResolves /\ UNCHANGED others
    \/ \E error \in StatErrors : PostStatRejects(error) /\ UNCHANGED others
    \/ UploadFilesReturns /\ UNCHANGED others

SpecLifetime == InitLifetime /\ [][NextLifetime]_vars


\* ================================================================== claims
FileDone == hist.outcome \in {"uploaded", "failed", "dropped"}

\* C1: in every state reachable during or after uploadFiles on a fresh
\* uploader, uploadedFiles + failedFiles <= totalFiles.
C1_CountersBounded ==
    stats.uploadedFiles + stats.failedFiles <= stats.totalFiles

\* C2: when uploadFiles returns after a run in which every rule matched at
\* least one file and resolving raised no exception,
\* uploadedFiles + failedFiles = totalFiles.
C2_EqualityAtCompletion ==
    (pc = "done" /\ ~run.resolutionFailed)
        => stats.uploadedFiles + stats.failedFiles = stats.totalFiles

\* C3: maxRetries is the total attempt count: put is invoked at most
\* maxRetries times for a file (attempt indices 0..maxRetries-1), and a file
\* whose attempts (at least one was made) all failed with a retryable error
\* had exactly maxRetries put calls and is recorded as failed (once).
C3_MaxRetriesIsTotalAttempts ==
    /\ hist.putCalls <= retryConfig.maxRetries
    /\ (hist.outcome = "active" /\ pc # "delaying") => attempt = hist.putCalls - 1
    /\ (FileDone /\ hist.putCalls >= 1 /\ hist.retryableFailures = hist.putCalls)
          => /\ hist.putCalls = retryConfig.maxRetries
             /\ hist.outcome = "failed"
             /\ hist.failedInc = 1
             /\ hist.uploadedInc = 0

C3_Witness ==
    /\ FileDone
    /\ retryConfig.maxRetries = 3
    /\ hist.putCalls = 3
    /\ hist.retryableFailures = 3
    /\ hist.outcome = "failed"

\* C4: if put fails with retryable errors k times and then succeeds, put was
\* invoked k + 1 times, the file is counted once in uploadedFiles, not in
\* failedFiles, and one result is returned for it.
C4_RetryThenSuccess ==
    (FileDone /\ hist.putSucceeded)
        => /\ hist.putCalls = hist.retryableFailures + 1
           /\ hist.uploadedInc = 1
           /\ hist.failedInc = 0
           /\ hist.resultInc = 1

\* C5: when a file's upload raises FileNotFoundError, put is invoked at most
\* once for that file and no backoff delay is taken.
C5_FileNotFoundNeverRetried ==
    hist.fnfRaised => (hist.putCalls <= 1 /\ hist.delays = <<>>)

\* C6 (as stated): an error is classified non-retryable only when it is of
\* the file-not-found class; every other error is classified retryable.
C6_FailOpen ==
    cls.done => (~cls.retryable <=> cls.error.class = "FileNotFoundError")

\* C6 (amended): an error is classified non-retryable exactly when it is of
\* the file-not-found class, or is not of the network-error class and carries
\* a backend code outside the retryable set, or carries no code and an HTTP
\* status outside {408,429,500,502,503,504}; every other error is retryable.
C6_Classification ==
    cls.done =>
        (~cls.retryable <=>
            \/ cls.error.class = "FileNotFoundError"
            \/ /\ cls.error.class = "Error"
               /\ cls.error.code # ""
               /\ cls.error.code \notin {"RequestTimeout", "ServiceUnavailable",
                                         "Throttling", "InternalError",
                                         "ConnectionTimeout", "SocketTimeout"}
            \/ /\ cls.error.class = "Error"
               /\ cls.error.code = ""
               /\ cls.error.status # 0
               /\ cls.error.status \notin {408, 429, 500, 502, 503, 504})

C6_Witness ==
    /\ cls.done
    /\ cls.error.class = "Error"
    /\ cls.error.code = "AccessDenied"
    /\ ~cls.retryable

\* C7: the delay taken after failed attempt i (0-based) is
\* min(baseDelay * backoffMultiplier^i, maxDelay); with baseDelay 1000,
\* maxDelay 10000 and multiplier 2 the delays are 1000, 2000, 4000, 8000,
\* 10000, 10000, ..., non-decreasing and never above maxDelay.
DefaultDelays == <<1000, 2000, 4000, 8000, 10000, 10000, 10000, 10000, 10000>>

IsDefaultBackoff ==
    /\ retryConfig.baseDelay = 1000
    /\ retryConfig.maxDelay = 10000
    /\ retryConfig.backoffMultiplier = 2

C7_BackoffDelays ==
    /\ pc = "delaying" =>
          /\ Len(hist.delays) = attempt + 1
          /\ delayMs = hist.delays[attempt + 1]
    /\ \A i \in 1..Len(hist.delays) :
          /\ hist.delays[i] =
                Min(retryConfig.baseDelay * Pow(retryConfig.backoffMultiplier, i - 1),
                    retryConfig.maxDelay)
          /\ hist.delays[i] <= retryConfig.maxDelay
          /\ IsDefaultBackoff =>
                /\ hist.delays[i] = DefaultDelays[i]
                /\ i > 1 => hist.delays[i - 1] <= hist.delays[i]

C7_Witness ==
    /\ IsDefaultBackoff
    /\ pc = "delaying"
    /\ hist.delays = <<1000, 2000, 4000, 8000, 10000, 10000>>

\* C8: a backoff delay starts only after a failed, retryable, non-final
\* attempt, and the step after it is the next put attempt for the same file;
\* so none follows a success, a non-retryable error or the last attempt.
C8_DelayOnlyBetweenAttempts ==
    [][/\ pc' = "delaying" =>
            /\ pc \in {"putting", "poststat"}
            /\ hist'.retryableFailures = hist.retryableFailures + 1
            /\ hist'.otherFailures = 0
            /\ ~hist.putSucceeded
            /\ attempt < retryConfig.maxRetries - 1
            /\ attempt' = attempt
       /\ pc = "delaying" =>
            /\ pc' = "putting"
            /\ hist'.putCalls = hist.putCalls + 1
            /\ attempt' = attempt + 1
            /\ ruleIdx' = ruleIdx
            /\ fileIdx' = fileIdx
            /\ stats' = stats]_vars

C8_Witness ==
    /\ pc = "putting"
    /\ attempt = 2
    /\ Len(hist.delays) = 2
    /\ hist.putCalls = 3

\* C9: an exception raised while a rule is processed is caught: uploadFiles
\* never rejects, the results pushed so far stay, the loop goes on with the
\* next rule, and every rule of the list has been processed when uploadFiles
\* returns.
C9_PartialBatchResilience ==
    /\ [](/\ pc # "threw"
          /\ pc = "done" => run.processed = ruleCount)
    /\ [][run'.threw # run.threw =>
            /\ pc' = "rule"
            /\ ruleIdx' = ruleIdx + 1
            /\ results' = results]_vars

C9_Witness ==
    /\ pc = "done"
    /\ run.firstThrew = 1
    /\ \E i \in 1..Len(results) : results[i].rule > run.firstThrew

\* C10: an exception that escapes the processing of a rule contributes
\* exactly one increment to failedFiles.
C10_OneIncrementPerException ==
    hist.escaped => hist.failedInc = 1

\* C11: per-file failures are recovered locally: within a directory rule a
\* failed file is recorded in the statistics and every remaining resolved
\* file of the rule is still attempted, so the processing of a directory
\* rule ends only after its last resolved file.
InFile == pc \in {"statting", "putting", "poststat", "delaying"}

C11_FailuresRecoveredLocally ==
    [][/\ (InFile /\ hist'.outcome = "failed")
            => stats'.failedFiles > stats.failedFiles
       /\ (InFile /\ rule.isDirectory /\ pc' = "rule")
            => fileIdx = files]_vars

\* C12: uploads are strictly sequential: the rules are handled in input
\* order (the rule index moves by one), the files of a directory rule in
\* resolution order (the file index moves by one, within the rule), a file is
\* finished - all its attempts are over - when the next one begins, and a put
\* call is issued only while none is outstanding (one is outstanding exactly
\* while the thread awaits it), for the file at hand.
C12_StrictlySequential ==
    [][/\ ruleIdx' # ruleIdx => (ruleIdx' = ruleIdx + 1 /\ pc' = "rule")
       /\ fileIdx' # fileIdx =>
            \/ fileIdx' = fileIdx + 1 /\ pc' = "statting" /\ ruleIdx' = ruleIdx
            \/ fileIdx' = 0 /\ pc' = "rule"
       /\ (fileIdx >= 1 /\ fileIdx' # fileIdx) =>
            hist'.outcome \in {"uploaded", "failed", "dropped"}
       /\ (hist.outcome = "active") <=> pc \in {"putting", "poststat", "delaying"}
       /\ hist'.putCalls # hist.putCalls =>
            \/ hist'.putCalls = 0 /\ pc' \in {"statting", "rule"}
            \/ /\ pc' = "putting"
               /\ pc \in {"statting", "delaying"}
               /\ hist'.putCalls = (IF pc = "statting" THEN 1 ELSE hist.putCalls + 1)
               /\ ruleIdx' = ruleIdx
               /\ fileIdx' = fileIdx
       /\ pc' = "putting" => hist'.putCalls # hist.putCalls \/ pc = "statting"]_vars

C12_Witness ==
    /\ pc = "putting"
    /\ ruleIdx = 2
    /\ fileIdx = 2
    /\ attempt = 1
    /\ Len(results) >= 1
    /\ Len(ruleResults) = 1

\* C13: getStats returns a copy: the objects it returns are distinct from
\* one another and from the uploader's own, each holds the values of the
\* statistics at the time of its call (so two calls in a row return equal
\* values, and a later call returns the uploader's values whatever was
\* written to an object returned earlier), and a write to a returned object
\* changes that object only, never the uploader's statistics.
C13_GetStatsReturnsCopy ==
    /\ [](\A i, j \in DOMAIN got :
             /\ got[i].ref # 0
             /\ i # j => got[i].ref # got[j].ref)
    /\ [][/\ Len(got') > Len(got) =>
                /\ Last(got').val = stats
                /\ stats' = stats
                /\ \A i \in DOMAIN got : got'[i] = got[i]
          /\ (Len(got') = Len(got) /\ got' # got) =>
                /\ stats' = stats
                /\ Cardinality({i \in DOMAIN got : got'[i] # got[i]}) = 1]_vars

C13_Witness ==
    /\ Len(got) = 2
    /\ got[1].val.uploadedFiles = MutatedValue
    /\ got[2].val.uploadedFiles = 1
    /\ stats.uploadedFiles = 1

\* C14: testConnection never throws: it returns true when the bucket-info
\* call resolves and false when that call rejects, with any error, and no
\* step of it changes the statistics.
C14_TestConnectionNeverThrows ==
    /\ [](/\ conn.pc # "threw"
          /\ conn.pc = "returned" => (conn.result <=> conn.call = "resolved"))
    /\ [][conn' # conn => stats' = stats]_vars

C14_Witness ==
    /\ conn.pc = "returned"
    /\ conn.call = "rejected"
    /\ ~conn.result
    /\ pc = "putting"
    /\ stats.totalFiles = 1

\* C15: when uploadFiles returns, successRate = uploadedFiles / totalFiles *
\* 100 of the final counts, and 0 when totalFiles = 0: 1 of 2 gives 50, 2 of
\* 2 gives 100, an empty rule list gives 0.
C15_SuccessRate ==
    pc = "done" =>
        /\ stats.successRate.den > 0
        /\ stats.totalFiles > 0 =>
              stats.successRate.num * stats.totalFiles
                  = stats.uploadedFiles * 100 * stats.successRate.den
        /\ stats.totalFiles = 0 => stats.successRate.num = 0
        /\ (stats.totalFiles = 2 /\ stats.uploadedFiles = 1)
              => stats.successRate = [num |-> 50, den |-> 1]
        /\ (stats.totalFiles = 2 /\ stats.uploadedFiles = 2)
              => stats.successRate = [num |-> 100, den |-> 1]
        /\ ruleCount = 0 => stats.successRate = [num |-> 0, den |-> 1]

C15_Witness ==
    /\ pc = "done"
    /\ stats.totalFiles = 2
    /\ stats.uploadedFiles = 1
    /\ stats.failedFiles = 1
    /\ stats.successRate = [num |-> 50, den |-> 1]

\* The step is processRule resolving a rule.
Resolving == pc = "rule" /\ run'.processed = run.processed + 1

\* C17: a rule whose source is a literal (non-glob) path that does not exist
\* increments totalFiles by 1 and failedFiles by 1 and yields no result,
\* whether its destination is a directory or not, and the loop goes on with
\* the next rule.
C17_MissingLiteralCounted ==
    [][(Resolving /\ hist'.noMatch = "missing") =>
            /\ stats'.totalFiles = stats.totalFiles + 1
            /\ stats'.failedFiles = stats.failedFiles + 1
            /\ results' = results
            /\ pc' = "rule"
            /\ ruleIdx' = ruleIdx + 1]_vars

\* C18: a rule whose source is a glob pattern that matches no file yields an
\* empty result and leaves totalFiles, uploadedFiles, failedFiles, totalSize
\* and uploadedSize as they are; no put call is issued for it.
C18_EmptyGlobLeavesStats ==
    [][(Resolving /\ hist'.noMatch = "glob") =>
            /\ stats'.totalFiles = stats.totalFiles
            /\ stats'.uploadedFiles = stats.uploadedFiles
            /\ stats'.failedFiles = stats.failedFiles
            /\ stats'.totalSize = stats.totalSize
            /\ stats'.uploadedSize = stats.uploadedSize
            /\ results' = results
            /\ hist'.putCalls = 0
            /\ pc' = "rule"
            /\ ruleIdx' = ruleIdx + 1]_vars

C18_Witness ==
    /\ pc = "rule"
    /\ hist.noMatch = "glob"
    /\ run.processed = 2
    /\ stats.totalFiles = 2
    /\ stats.uploadedFiles = 1
    /\ stats.failedFiles = 1
    /\ stats.totalSize = 3
    /\ stats.uploadedSize = 2

\* The rule at hand maps a single concrete file to a directory destination:
\* its source holds no glob character and names an existing regular file,
\* its destination ends with "/".
SingleFileToDirectory ==
    InFile /\ ~rule.sourceHasGlob /\ rule.kind = "file" /\ rule.isDirectory

\* C16 (as stated): a single concrete file mapped to a directory destination
\* resolves to exactly one transfer, of that file, with remote key
\* destination + basename(source).
C16_KeyIsDestinationPlusName ==
    SingleFileToDirectory =>
        /\ files = 1
        /\ pc = "putting" =>
              /\ putLocalPath = resolve(rule.source)
              /\ putObjectKey = rule.destination \o <<basename(rule.source)>>

\* C16 (amended): such a rule resolves to exactly one file, never to none,
\* and that file is transferred with remote key
\* sanitizeRemotePath(destination + basename(source)): destination +
\* basename(source) with the leading slashes removed and every run of
\* slashes collapsed, which is destination + basename(source) itself when
\* the destination has no leading and no repeated slash.
C16_SingleFileToDirectory ==
    /\ \A s \in Sources, d \in Destinations, fs \in FileSystems :
          (~hasGlob(s) /\ isFile(s, fs) /\ endsWithSlash(d))
              => KeyRule(s, d, fs).files = <<resolve(s)>>
    /\ SingleFileToDirectory =>
          /\ files = 1
          /\ fileIdx = 1
          /\ stats.totalFiles = 1
          /\ pc = "putting" =>
                /\ putLocalPath = resolve(rule.source)
                /\ putObjectKey = collapseSlashes(stripLeadingSlashes(
                                      rule.destination \o <<basename(rule.source)>>))
                /\ (/\ Head(rule.destination) # "/"
                    /\ \A i \in 1..(Len(rule.destination) - 1) :
                          ~(rule.destination[i] = "/" /\ rule.destination[i + 1] = "/"))
                      => putObjectKey = rule.destination \o <<basename(rule.source)>>

C16_Witness ==
    /\ pc = "putting"
    /\ SingleFileToDirectory
    /\ rule.source = <<"logo.zip">>
    /\ rule.destination = <<"/", "up", "/">>
    /\ putObjectKey = <<"up", "/", "logo.zip">>

\* C19: for a rule whose destination does not end with "/" and whose source
\* matches several files, only the first match in resolution order is
\* uploaded: put is invoked for that file alone, with the rule's destination
\* as remote key, and no other match is handled.
C19_FirstMatchOnly ==
    (InFile /\ ~rule.isDirectory) =>
        /\ fileIdx = 1
        /\ Len(ruleResults) = 0
        /\ pc = "putting" =>
              /\ putLocalPath = resolve(rule.files[1])
              /\ putObjectKey = rule.destination

C19_Witness ==
    /\ pc = "putting"
    /\ ~rule.isDirectory
    /\ Len(rule.files) = 2
    /\ stats.totalFiles = 2
    /\ putLocalPath = <<"/", "w", "/", "dist", "/", "a.js">>
    /\ putObjectKey = <<"k">>

\* C20: every remote key passed to put, for directory and non-directory
\* rules alike, does not start with "/".
C20_NoLeadingSlash ==
    pc = "putting" => (putObjectKey = <<>> \/ Head(putObjectKey) # "/")

\* The slashes of p that survive: those that directly follow a name.
RECURSIVE KeptFrom(_, _)
KeptFrom(p, i) ==
    IF i > Len(p) THEN <<>>
    ELSE (IF p[i] # "/" \/ (i > 1 /\ p[i - 1] # "/") THEN <<p[i]>> ELSE <<>>)
             \o KeptFrom(p, i + 1)

HasName(p) == \E i \in 1..Len(p) : p[i] # "/"

Sanitized(out) ==
    /\ out # <<>> => Head(out) # "/"
    /\ \A i \in 1..(Len(out) - 1) : ~(out[i] = "/" /\ out[i + 1] = "/")

\* C21 (as stated): sanitizeRemotePath(p) does not start with "/", has no two
\* consecutive "/", equals p with the leading slashes removed and every run
\* of slashes collapsed to one, and ends with "/" whenever p ends with "/".
C21_TrailingSlashAlwaysKept ==
    probe.done =>
        /\ Sanitized(probe.output)
        /\ probe.output = KeptFrom(probe.input, 1)
        /\ endsWithSlash(probe.input) => endsWithSlash(probe.output)

\* C21 (amended): as above, but the trailing slash is kept exactly when p
\* holds a character other than "/"; a p made of slashes alone gives "".
C21_Sanitize ==
    probe.done =>
        /\ Sanitized(probe.output)
        /\ probe.output = KeptFrom(probe.input, 1)
        /\ (endsWithSlash(probe.input) /\ HasName(probe.input))
               => endsWithSlash(probe.output)
        /\ ~HasName(probe.input) => probe.output = <<>>
        /\ probe.input = SlashesExample
               => probe.output = <<"multiple", "/", "slashes", "/">>

C21_Witness ==
    /\ probe.done
    /\ probe.input = SlashesExample
    /\ probe.output = <<"multiple", "/", "slashes", "/">>

\* The file's path relative to the literal prefix of the source (an empty
\* prefix is the working directory), or its basename when it lies outside.
RelativeToPrefix(file, source) ==
    LET b == absoluteSegments(literalPrefix(source))
        f == segments(file)
    IN  IF Len(b) < Len(f) /\ SubSeq(f, 1, Len(b)) = b
          THEN join(SubSeq(f, Len(b) + 1, Len(f)))
          ELSE <<basename(file)>>

\* C22: for a directory rule with a glob source, the remote key of each file
\* is sanitize(destination + relativePath), relativePath being the file's
\* path relative to the literal prefix of the source, or the file's basename
\* when the file lies outside that base.
C22_GlobKeysRelativeToPrefix ==
    (pc = "putting" /\ rule.isDirectory /\ rule.sourceHasGlob)
        => putObjectKey =
               sanitizeRemotePath(rule.destination
                                    \o RelativeToPrefix(rule.files[fileIdx], rule.source))

\* The same for the sources that begin with a literal directory.
C22_HoldsUnderLiteralPrefix ==
    (pc = "putting" /\ rule.isDirectory /\ rule.sourceHasGlob
       /\ literalPrefix(rule.source) # <<>>)
        => putObjectKey =
               sanitizeRemotePath(rule.destination
                                    \o RelativeToPrefix(rule.files[fileIdx], rule.source))

\* ---- the rule text, line by line
HasColon(l) == \E i \in DOMAIN l : l[i] = ":"

LastColon(l) == CHOOSE i \in DOMAIN l : l[i] = ":" /\ \A j \in (i + 1)..Len(l) : l[j] # ":"

Blank(x) == \A i \in DOMAIN x : x[i] \in Whitespace

\* A line with no colon, or with nothing but blanks before or after its
\* last colon.
Malformed(l) ==
    \/ ~HasColon(l)
    \/ Blank(SubSeq(l, 1, LastColon(l) - 1))
    \/ Blank(SubSeq(l, LastColon(l) + 1, Len(l)))

ValidLines(text) == SelectSeq(split(text, "\n"), LAMBDA l : ~Malformed(l))

Trimmed(x) == x # <<>> /\ Head(x) \notin Whitespace /\ Last(x) \notin Whitespace

Pad(n) == [i \in 1..n |-> " "]

\* The line l is the source and the destination of r around a colon, with
\* blanks around each of them only.
RuleOfLine(r, l) ==
    \E a, b, c, d \in 0..Len(l) :
        l = Pad(a) \o r.source \o Pad(b) \o <<":">> \o Pad(c) \o r.destination \o Pad(d)

\* C23: parseUploadRules returns for every text; a line with no colon, an
\* empty source or an empty destination (after trimming) is dropped and the
\* lines that remain are parsed: the rules are those of the well-formed
\* lines, and the five lines of the example give exactly two rules.
C23_MalformedLinesDropped ==
    probe.done =>
        /\ Len(probe.output) = Len(ValidLines(probe.input))
        /\ \A k \in DOMAIN probe.output :
              RuleOfLine(probe.output[k], ValidLines(probe.input)[k])
        /\ probe.input = MalformedExample =>
              probe.output =
                  << [source |-> <<"src", "/", "**", "/", "*">>,
                      destination |-> <<"dist", "/">>, isDirectory |-> TRUE],
                     [source |-> <<"README.md">>,
                      destination |-> <<"docs", "/", "r.md">>, isDirectory |-> FALSE] >>

C23_Witness ==
    /\ probe.done
    /\ probe.input = MalformedExample
    /\ Len(split(probe.input, "\n")) = 5
    /\ Len(probe.output) = 2

\* C24: each line is split on its last colon: the source of its rule is the
\* trimmed text before the last colon, the destination the trimmed text
\* after it, so that a destination never holds a colon and the colon of a
\* drive letter stays in the source.
C24_SplitOnLastColon ==
    probe.done =>
        /\ \A k \in DOMAIN probe.output :
              LET l == ValidLines(probe.input)[k]
                  r == probe.output[k]
              IN  /\ ~HasColon(r.destination)
                  /\ Trimmed(r.source) /\ Trimmed(r.destination)
                  /\ \E a, b \in 0..Len(l) :
                        SubSeq(l, 1, LastColon(l) - 1) = Pad(a) \o r.source \o Pad(b)
                  /\ \E c, d \in 0..Len(l) :
                        SubSeq(l, LastColon(l) + 1, Len(l))
                            = Pad(c) \o r.destination \o Pad(d)
        /\ probe.input = DriveExample =>
              probe.output = << [source |-> <<"C", ":", "\\file">>,
                                 destination |-> <<"dest", "/">>,
                                 isDirectory |-> TRUE] >>

C24_Witness ==
    /\ probe.done
    /\ probe.input = DriveExample
    /\ Len(probe.output) = 1
    /\ HasColon(probe.output[1].source)

\* C25: one rule for each valid line, in the order of the lines and with
\* repetitions kept; the source and the destination of every rule are
\* non-empty and trimmed, and isDirectory is true exactly when the
\* destination ends with "/".
C25_OneRulePerValidLine ==
    probe.done =>
        /\ Len(probe.output) = Len(ValidLines(probe.input))
        /\ \A k \in DOMAIN probe.output :
              LET r == probe.output[k]
              IN  /\ RuleOfLine(r, ValidLines(probe.input)[k])
                  /\ Trimmed(r.source)
                  /\ Trimmed(r.destination)
                  /\ r.isDirectory <=> Last(r.destination) = "/"
        /\ probe.input = RepeatedExample => Len(probe.output) = 2

C25_Witness ==
    /\ probe.done
    /\ probe.input = RepeatedExample
    /\ Len(probe.output) = 2
    /\ probe.output[1] = probe.output[2]

\* C26: writing the parsed rules as 'source:destination', one per line, and
\* parsing that text gives the same rule list.
C26_ParseIdempotent ==
    probe.reparsed => probe.again = probe.output

C26_Witness ==
    /\ probe.reparsed
    /\ probe.input = MalformedExample
    /\ serialize(probe.output) # probe.input
    /\ Len(probe.again) = 2
    /\ probe.again = probe.output

\* The elements uploadFiles has collected, the ones of the rule at hand last.
Collected == results \o ruleResults

\* C27: every element uploadFiles returns describes a successful upload,
\* with success = true, the local path of the file and its remote key; an
\* element is added only when a put resolved for that file, and a file whose
\* upload failed adds none.
C27_OnlySuccessfulUploads ==
    /\ [](\A i \in DOMAIN Collected :
             /\ Collected[i].success
             /\ \E k \in DOMAIN TreeFiles : Collected[i].filePath = TreeFiles[k])
    /\ [][/\ Len(Collected') > Len(Collected) =>
                /\ pc = "poststat"
                /\ hist.putSucceeded
                /\ hist'.outcome = "uploaded"
                /\ Collected' = Append(Collected,
                                       [success |-> TRUE, rule |-> ruleIdx,
                                        file |-> fileIdx,
                                        filePath |-> rule.files[fileIdx],
                                        objectKey |-> putObjectKey])
          /\ (InFile /\ (pc' = "rule" \/ fileIdx' # fileIdx)
                /\ hist'.outcome \in {"failed", "dropped"}) =>
                /\ Len(Collected') <= Len(Collected)
                /\ \A i \in DOMAIN Collected' :
                      ~(Collected'[i].rule = ruleIdx /\ Collected'[i].file = fileIdx)]_vars

\* uploadFiles returned one element for a rule of two files, the first of
\* which failed.
C27_Witness ==
    /\ pc = "done"
    /\ stats.failedFiles = 1
    /\ stats.uploadedFiles = 1
    /\ Len(results) = 1
    /\ results[1].success
    /\ results[1].file = 2
    /\ results[1].objectKey = <<"up", "/", "sub", "/", "b.js">>

C29_ConnectionCheckAdvisory ==
    (act.pc \in {"upload", "end"} /\ conn.pc = "returned" /\ ~conn.result
       /\ ValidLines(act.assets) # <<>>) =>
        /\ act.warned
        /\ act.uploadCalls = 1
        /\ act.failed # "none" =>
              (act.pc = "end" /\ act.failed = UploadIncomplete /\ stats.failedFiles > 0)

C29_Witness ==
    /\ act.pc = "end"
    /\ conn.call = "rejected"
    /\ ~conn.result
    /\ act.uploadCalls = 1
    /\ stats.uploadedFiles > 0
    /\ act.failed = "none"

C31_ClassChecksFirst ==
    /\ "NETWORK_ERROR" \notin retryableCodes
    /\ cls.done =>
          /\ cls.error.class = "FileNotFoundError" => ~cls.retryable
          /\ cls.error.class = "NetworkError" => cls.retryable

C31_Witness ==
    /\ cls.done
    /\ cls.error.class = "NetworkError"
    /\ cls.error.code = "NETWORK_ERROR"
    /\ cls.error.status = 403
    /\ cls.retryable

\* C32: whatever maxRetries is (0 included), a file handed to uploadSingleFile
\* is counted in uploadedFiles or in failedFiles by the time uploadSingleFile
\* finishes, so that failedFiles > 0 once a file handed to it was not
\* uploaded.
C32_NoFileLeftUncounted ==
    FileDone =>
        /\ hist.uploadedInc + hist.failedInc >= 1
        /\ hist.uploadedInc = 0 => stats.failedFiles > 0

\* C33: when uploadFiles returns on a fresh uploader, the number of results
\* it returns equals uploadedFiles.
C33_ResultsMatchUploaded ==
    pc = "done" => Len(results) = stats.uploadedFiles

\* C34: once a put call for a file has resolved, put is not invoked again
\* for that file (no further attempt, no delay), and the file ends counted
\* in uploadedFiles and not in failedFiles, whatever the getFileStats after
\* the put does.
C34_SuccessfulPutIsFinal ==
    hist.putSucceeded =>
        /\ pc \notin {"putting", "delaying"}
        /\ FileDone => (hist.outcome = "uploaded" /\ hist.failedInc = 0)

\* C35: within one directory rule no two distinct resolved files are given
\* the same remote key: the key of the file being put is the key of none of
\* the files of the rule handled before it.
C35_NoKeyCollision ==
    (pc = "putting" /\ rule.isDirectory) =>
        \A i \in 1..(fileIdx - 1) :
            remotePath(rule, rule.files, rule.files[i]) # putObjectKey

\* C36: under a directory rule whose source is a directory path without glob
\* characters, the remote key of each file is sanitize(destination + the
\* file's path relative to that directory), however many files the
\* directory holds.
C36_LiteralDirectoryKeepsStructure ==
    (pc = "putting" /\ rule.isDirectory /\ ~rule.sourceHasGlob
       /\ rule.kind = "directory")
        => putObjectKey =
               sanitizeRemotePath(rule.destination
                                    \o RelativeToPrefix(rule.files[fileIdx], rule.source))

\* C37: in every reachable state uploadedFiles <= totalFiles and
\* uploadedSize <= totalSize, and once uploadFiles has returned
\* 0 <= successRate <= 100.
C37_UploadedWithinTotals ==
    /\ stats.uploadedFiles <= stats.totalFiles
    /\ stats.uploadedSize <= stats.totalSize
    /\ pc = "done" =>
          /\ stats.successRate.den > 0
          /\ 0 <= stats.successRate.num
          /\ stats.successRate.num <= 100 * stats.successRate.den

C37_Witness ==
    /\ pc = "done"
    /\ stats.totalFiles = 2
    /\ stats.uploadedFiles = 1
    /\ stats.totalSize = 3
    /\ stats.uploadedSize = 1
    /\ stats.successRate = [num |-> 50, den |-> 1]

\* C38: over the uploadFiles calls made one after the other on one uploader,
\* totalFiles, uploadedFiles, failedFiles, totalSize and uploadedSize never
\* decrease (a new call does not reset them), and the successRate written
\* when a call returns is that of the cumulative counts.
C38_StatsAccumulate ==
    /\ [][/\ stats'.totalFiles >= stats.totalFiles
          /\ stats'.uploadedFiles >= stats.uploadedFiles
          /\ stats'.failedFiles >= stats.failedFiles
          /\ stats'.totalSize >= stats.totalSize
          /\ stats'.uploadedSize >= stats.uploadedSize
          /\ (pc = "done" /\ pc' = "rule") =>
                (stats' = stats /\ results' = <<>>)]_vars
    /\ [](pc = "done" =>
            /\ stats.successRate.den > 0
            /\ IF stats.totalFiles > 0
                 THEN stats.successRate.num * stats.totalFiles
                          = stats.uploadedFiles * 100 * stats.successRate.den
                 ELSE stats.successRate.num = 0)

\* The second call has returned one result; the statistics hold the files of
\* both calls.
C38_Witness ==
    /\ pc = "done"
    /\ run.calls = 1
    /\ Len(results) = 1
    /\ stats.totalFiles = 4
    /\ stats.uploadedFiles = 3
    /\ stats.totalSize = 5
    /\ stats.successRate = [num |-> 75, den |-> 1]

\* C39: when every put, file-stat and delay call completes, a call of
\* uploadFiles returns, and at most maxRetries put calls are issued for a
\* file.
C39_UploadFilesTerminates ==
    /\ pc = "rule" ~> pc = "done"
    /\ [](hist.putCalls <= retryConfig.maxRetries)

C39_Witness ==
    /\ pc = "done"
    /\ run.processed = 2
    /\ retryConfig.maxRetries = 3
    /\ hist.putCalls = 3
    /\ Len(hist.delays) = 2
    /\ stats.totalFiles = 4

====
